---- MODULE Spec2Model ----
(***************************************************************************)
(* A model of SincNet.ipynb: the SincNetDataset wrapper (construction,     *)
(* __getitem__, _prepare_sample), the three datasets built over one        *)
(* label_encoder.pkl, the sinc layer Custom (forward) with the optimizer   *)
(* step of fit_epoch, the mode of the model over calls of train,           *)
(* fit_epoch, eval_epoch and predict, and the shapes through the layers of *)
(* SincNet.                                                                *)
(*                                                                         *)
(* Amplitudes are integers.  The noise threshold and the segment duration  *)
(* are rationals, kept as numerator / denominator, so that every           *)
(* comparison of the code is an integer comparison here.  A normalised     *)
(* sample is kept exactly, as the terms of (x - mean) / std.               *)
(***************************************************************************)
EXTENDS Integers, Sequences, FiniteSets

VARIABLES dataset, le_file, ctor, item, custom, batch, fwd, stepped,
          split, loop, stack

vars == <<dataset, le_file, ctor, item, custom, batch, fwd, stepped,
         split, loop, stack>>

----------------------------------------------------------------------------
(* Bounds of the model *)

MaxLen == 4

MaxAmp == 2

MaxFiles == 2

MaxBatch == 2

NumFilters == 1

RandDen == 3

MaxLoader == 2

MaxCalls == 3

MaxClasses == 3

----------------------------------------------------------------------------
(* Constants of the notebook *)

DATA_MODES == {"train", "val", "test"}

\* WAVETIME = 0.2 = WavetimeNum / WavetimeDen
WavetimeNum == 1

WavetimeDen == 5

\* trashhold = 0.01 = 1 / TrashholdDen
TrashholdDen == 100

NUMBER_OF_FILTERS == 80

\* in_features of lin1: int(60 * (0.2 * 16000 - 258))
Lin1InFeatures == 60 * (3200 - 258)

----------------------------------------------------------------------------
(* Inputs *)

\* modes a caller may pass to the constructor; "dev" is not in DATA_MODES
Modes == DATA_MODES \cup {"dev"}

\* thresholds a caller may pass, as numerators over TrashholdDen:
\* the default 0.01, and 0.5
Trashholds == {1, 50}

\* sample rates torchaudio.load may report; wavetime * sample_rate is 2 or 3
SampleRates == {10, 15}

Amps == (0 - 1)..MaxAmp

RECURSIVE SeqsUpTo(_, _)
SeqsUpTo(S, n) ==
    IF n = 0 THEN {<<>>}
    ELSE LET shorter == SeqsUpTo(S, n - 1)
         IN  shorter \cup {Append(s, a) : s \in {t \in shorter : Len(t) = n - 1}, a \in S}

Waves == SeqsUpTo(Amps, MaxLen)

\* a path is its parent directory (the speaker label) and its file name,
\* both numbered in string order
Paths == {[parent |-> p, stem |-> 1] : p \in 1..2}

FileLists == SeqsUpTo(Paths, MaxFiles) \ {<<>>}

----------------------------------------------------------------------------
(* Helpers *)

Abs(v) == IF v < 0 THEN 0 - v ELSE v

Min(a, b) == IF a < b THEN a ELSE b

RECURSIVE SumSeq(_)
SumSeq(s) == IF s = <<>> THEN 0 ELSE Head(s) + SumSeq(Tail(s))

\* torch.max(torch.abs(sample[0])), for a non-empty waveform
RECURSIVE MaxAbs(_)
MaxAbs(s) ==
    IF Len(s) = 1 THEN Abs(s[1])
    ELSE LET m == MaxAbs(Tail(s)) IN IF Abs(s[1]) > m THEN Abs(s[1]) ELSE m

Range(s) == {s[i] : i \in 1..Len(s)}

PathLess(a, b) == a.parent < b.parent \/ (a.parent = b.parent /\ a.stem < b.stem)

\* sorted(files): insertion of each element into a sorted prefix
RECURSIVE Insert(_, _)
Insert(s, a) ==
    IF s = <<>> THEN <<a>>
    ELSE IF PathLess(a, Head(s)) THEN <<a>> \o s
    ELSE <<Head(s)>> \o Insert(Tail(s), a)

RECURSIVE Sorted(_)
Sorted(s) == IF s = <<>> THEN <<>> ELSE Insert(Sorted(Tail(s)), Head(s))

\* LabelEncoder.fit: classes_ is the sorted sequence of the distinct labels
RECURSIVE SortedSet(_)
SortedSet(S) ==
    IF S = {} THEN <<>>
    ELSE LET m == CHOOSE x \in S : \A y \in S : x <= y
         IN  <<m>> \o SortedSet(S \ {m})

Fit(labels) == SortedSet(Range(labels))

TransformOneBased(classes, label) == CHOOSE i \in 1..Len(classes) : classes[i] = label

\* LabelEncoder.inverse_transform: the label at the 0-based position id of
\* classes_; an id outside classes_ is rejected
CanInverseTransform(classes, id) == id + 1 \in 1..Len(classes)

InverseTransform(classes, id) == classes[id + 1]

\* LabelEncoder.transform([label]).item(): the 0-based position in classes_
Transform(classes, label) == (CHOOSE i \in 1..Len(classes) : classes[i] = label) - 1

----------------------------------------------------------------------------
(* SincNetDataset._prepare_sample *)

\* sample[0][sample[0] > trashhold * max|sample[0]|], trashhold = th / TrashholdDen
Denoise(sample, th) ==
    SelectSeq(sample, LAMBDA a : a * TrashholdDen > th * MaxAbs(sample))

\* len(sample[0]) > number, number = wavetime * sample_rate
LongerThanNumber(len, sample_rate) ==
    len * WavetimeDen > WavetimeNum * sample_rate

\* int(sample.shape[1] // number + 1)
Sections(len, sample_rate) ==
    (len * WavetimeDen) \div (WavetimeNum * sample_rate) + 1

\* torch.tensor_split(t, n): the first len % n sections have len // n + 1
\* elements, the others len // n
SectionSize(len, n, i) == len \div n + (IF i <= len % n THEN 1 ELSE 0)

SectionStart(len, n, i) == (i - 1) * (len \div n) + Min(i - 1, len % n)

TensorSplit(s, n) ==
    [i \in 1..n |->
        SubSeq(s, SectionStart(Len(s), n, i) + 1,
                  SectionStart(Len(s), n, i) + SectionSize(Len(s), n, i))]

DropLast(ss) == SubSeq(ss, 1, Len(ss) - 1)

\* the value 0/0 (or x/NaN) of IEEE arithmetic
NaN == [num |-> 0, n1 |-> 0, q |-> 0]

\* sum of the squared deviations, scaled by n^2:  sum (n*x - S)^2
ScaledSq(c) ==
    LET n == Len(c)
        S == SumSeq(c)
    IN  SumSeq([i \in 1..n |-> (n * c[i] - S) * (n * c[i] - S)])

\* torch.std(c) is 0 for a constant chunk and NaN for a chunk of one element
\* (unbiased estimator, division by n - 1)
StdUndefined(c) == Len(c) <= 1 \/ ScaledSq(c) = 0

\* (c - torch.mean(c)) / torch.std(c), elementwise; the value at i is
\* num * sqrt(n1) / sqrt(q), which is kept as its three integers
Normalize(c) ==
    LET n == Len(c)
        S == SumSeq(c)
    IN  [i \in 1..n |->
            IF StdUndefined(c) THEN NaN
            ELSE [num |-> n * c[i] - S, n1 |-> n - 1, q |-> ScaledSq(c)]]

\* the call's outcome: the segments returned, or the exception raised
PrepareSample(sample, sample_rate, th) ==
    IF sample = <<>>
    THEN [status |-> "raised", error |-> "RuntimeError", clean |-> <<>>,
          chunks |-> <<>>, samples |-> <<>>]
    ELSE LET clean == Denoise(sample, th) IN
         IF LongerThanNumber(Len(clean), sample_rate)
         THEN LET chunks == DropLast(TensorSplit(clean, Sections(Len(clean), sample_rate)))
              IN  [status |-> "returned", error |-> "none", clean |-> clean,
                   chunks |-> chunks,
                   samples |-> [i \in 1..Len(chunks) |-> Normalize(chunks[i])]]
         ELSE [status |-> "raised", error |-> "UnboundLocalError", clean |-> clean,
               chunks |-> <<>>, samples |-> <<>>]

----------------------------------------------------------------------------
(* SincNetDataset *)

NoDataset ==
    [constructed |-> FALSE, files |-> <<>>, mode |-> "none", trashhold |-> 0,
     labels |-> <<>>, classes |-> <<>>]

NoItem ==
    [status |-> "none", error |-> "none", index |-> 0, wave |-> <<>>,
     sample_rate |-> 0, clean |-> <<>>, chunks |-> <<>>, x |-> <<>>, f |-> <<>>,
     has_y |-> FALSE, y |-> <<>>, mode |-> "none"]

NoFile == [written |-> 0, classes |-> <<>>]

\* SincNetDataset(files, mode, wavetime, trashhold): the object built when
\* mode is one of DATA_MODES
NewDataset(files, mode, th) ==
    LET sorted == Sorted(files)
        labels == [i \in 1..Len(sorted) |-> sorted[i].parent]
    IN  IF mode # "test"
        THEN [constructed |-> TRUE, files |-> sorted, mode |-> mode,
              trashhold |-> th, labels |-> labels, classes |-> Fit(labels)]
        ELSE [constructed |-> TRUE, files |-> sorted, mode |-> mode,
              trashhold |-> th, labels |-> <<>>, classes |-> <<>>]

\* open('label_encoder.pkl', 'wb') and pickle.dump: the file is replaced by
\* the encoder of the dataset under construction, unless mode is 'test'
DumpEncoder(file, ds) ==
    IF ds.mode # "test"
    THEN [written |-> file.written + 1, classes |-> ds.classes]
    ELSE file

InitOutcomeLateCheck(old, file, files, mode, th) ==
    IF mode \notin DATA_MODES
    THEN [ctor |-> "NameError", dataset |-> old,
          le_file |-> DumpEncoder(file, NewDataset(files, mode, th))]
    ELSE [ctor |-> "ok", dataset |-> NewDataset(files, mode, th),
          le_file |-> DumpEncoder(file, NewDataset(files, mode, th))]

\* SincNetDataset(files, mode, wavetime, trashhold), called where the name
\* to bind holds old and label_encoder.pkl holds file: the mode is checked
\* first, and NameError leaves the name and the file as they were
InitOutcome(old, file, files, mode, th) ==
    IF mode \notin DATA_MODES
    THEN [ctor |-> "NameError", dataset |-> old, le_file |-> file]
    ELSE [ctor |-> "ok", dataset |-> NewDataset(files, mode, th),
          le_file |-> DumpEncoder(file, NewDataset(files, mode, th))]

\* a call of the constructor: NameError for a mode outside DATA_MODES,
\* else the object, and label_encoder.pkl rewritten unless mode is 'test'
DatasetInit ==
    /\ ~dataset.constructed
    /\ \E files \in FileLists, mode \in Modes, th \in Trashholds :
         LET out == InitOutcome(dataset, le_file, files, mode, th)
         IN  /\ ctor' = out.ctor
             /\ dataset' = out.dataset
             /\ le_file' = out.le_file
    /\ UNCHANGED <<item, custom, batch, fwd, stepped, split, loop, stack>>

\* ds[index], for the file holding the waveform wave at rate sample_rate
GetItemResult(ds, index, wave, sample_rate) ==
    LET p == PrepareSample(wave, sample_rate, ds.trashhold)
        k == Len(p.samples)
    IN  IF p.status = "raised"
        THEN [NoItem EXCEPT !.status = "raised", !.error = p.error,
                            !.index = index, !.wave = wave,
                            !.sample_rate = sample_rate, !.clean = p.clean,
                            !.mode = ds.mode]
        ELSE [status |-> "returned", error |-> "none", index |-> index,
              wave |-> wave, sample_rate |-> sample_rate, clean |-> p.clean,
              chunks |-> p.chunks, x |-> p.samples,
              f |-> [i \in 1..k |-> sample_rate],
              has_y |-> ds.mode # "test",
              y |-> IF ds.mode = "test" THEN <<>>
                    ELSE [i \in 1..k |-> Transform(ds.classes, ds.labels[index])],
              mode |-> ds.mode]

\* a call of __getitem__ by the loop over the dataset
GetItem ==
    /\ dataset.constructed
    /\ item.status = "none"
    /\ \E index \in 1..Len(dataset.files), wave \in Waves, sample_rate \in SampleRates :
         item' = GetItemResult(dataset, index, wave, sample_rate)
    /\ UNCHANGED <<dataset, le_file, ctor, custom, batch, fwd, stepped, split, loop, stack>>

\* the loop that asked for the item goes on to its next iteration
NextIteration ==
    /\ item.status # "none"
    /\ item' = NoItem
    /\ UNCHANGED <<dataset, le_file, ctor, custom, batch, fwd, stepped, split, loop, stack>>

----------------------------------------------------------------------------
(* Custom, the sinc layer *)

\* window lengths a caller may pass to Custom(number_of_filters, l)
KernelLens == {2, 3}

\* time lengths of the batches x given to forward
SegLens == {2, 3}

\* sample rates a caller may pass to forward
NetRates == {0 - 2, 0, 2}

\* a batch: inputs of shape (b, 1, n), with its sample rate
Batches ==
    {[x_shape |-> <<b, 1, n>>, sample_rate |-> r] :
        b \in 1..MaxBatch, n \in SegLens, r \in NetRates}

\* torch.rand(number_of_filters, 1, 1): each entry is k / RandDen, 0 <= k < RandDen
Rands == [1..NumFilters -> 0..(RandDen - 1)]

\* Frequencies are kept as numerators over 2 * RandDen:
\* (k / RandDen) * sample_rate / 2 = (k * sample_rate) / (2 * RandDen)
ScaledRand(k, sample_rate) == k * sample_rate

\* sample_rate / 2, on the same scale
Nyquist(sample_rate) == RandDen * sample_rate

HighCutoffNoAbs(f1, r) == f1 + (f1 - r)

\* f_2 = f_1 + |f_1 - r|
HighCutoff(f1, r) == f1 + Abs(f1 - r)

\* One tap of g_filter * hamming_window.  At n = 0, sinc is 1 and the window
\* is 0.54 - 0.46 = 0.08, so the tap is 0.16 * (f_2 - f_1): the integer
\* 16 * (f2 - f1) over 100 * 2 * RandDen.  With f_1 = f_2 every tap is 0.
\* Any other tap is kept as the term that defines it.
Tap(f1, f2, n, l) ==
    IF n = 0 \/ f1 = f2
    THEN [exact |-> TRUE, val |-> 16 * (f2 - f1), f_1 |-> 0, f_2 |-> 0, n |-> n, L |-> l]
    ELSE [exact |-> FALSE, val |-> 0, f_1 |-> f1, f_2 |-> f2, n |-> n, L |-> l]

\* result_filters, shape (number_of_filters, 1, L)
ResultFilters(f_1, f_2, l) ==
    [i \in 1..Len(f_1) |-> [n \in 0..(l - 1) |-> Tap(f_1[i], f_2[i], n, l)]]

KernelTooLongAtEqual(n, l) == l >= n

\* F.conv1d raises RuntimeError when the kernel is longer than the input
KernelTooLong(n, l) == l > n

\* F.conv1d(x, result_filters), padding 0, stride 1: the shape of results
Conv1dShape(x_shape, filters, l) == <<x_shape[1], filters, x_shape[3] - l + 1>>

NoForward ==
    [outcome |-> "none", error |-> "none", x_shape |-> <<>>, sample_rate |-> 0,
     f_1 |-> <<>>, f_2 |-> <<>>, result_filters |-> <<>>, results |-> <<>>,
     returned |-> <<>>]

\* layer.forward(x, sample_rate) for x of shape x_shape, with the draws k1,
\* k2 of the two torch.rand calls
ForwardResult(layer, x_shape, sample_rate, k1, k2) ==
    LET f_1 == [i \in 1..layer.number_of_filters |-> ScaledRand(k1[i], sample_rate)]
        f_2 == [i \in 1..layer.number_of_filters |->
                    HighCutoff(f_1[i], ScaledRand(k2[i], sample_rate))]
        call == [NoForward EXCEPT !.x_shape = x_shape,
                                  !.sample_rate = sample_rate,
                                  !.f_1 = f_1, !.f_2 = f_2,
                                  !.result_filters = ResultFilters(f_1, f_2, layer.L)]
    IN  IF KernelTooLong(x_shape[3], layer.L)
        THEN [call EXCEPT !.outcome = "raised", !.error = "RuntimeError"]
        \* "return resultsl": the name resultsl is not defined
        ELSE [call EXCEPT !.outcome = "raised", !.error = "NameError",
                          !.results = Conv1dShape(x_shape, layer.number_of_filters,
                                                  layer.L)]

\* the loop takes the next batch from the loader; the outcome of the call
\* on the batch before is gone
LoadBatch ==
    /\ batch' \in Batches
    /\ fwd' = NoForward
    /\ stepped' = FALSE
    /\ UNCHANGED <<dataset, le_file, ctor, item, custom, split, loop, stack>>

\* a call of forward on the layer, for the current batch
Forward ==
    /\ \E k1 \in Rands, k2 \in Rands :
         fwd' = ForwardResult(custom, batch.x_shape, batch.sample_rate, k1, k2)
    /\ stepped' = FALSE
    /\ UNCHANGED <<dataset, le_file, ctor, item, custom, batch, split, loop, stack>>

\* optimizer.step() over model.parameters(): Custom registers no parameter,
\* so the step leaves the layer as it is; stepped records that a step has
\* completed since the last call of forward
OptimizerStep ==
    /\ stepped' = TRUE
    /\ UNCHANGED <<dataset, le_file, ctor, item, custom, batch, fwd, split, loop, stack>>

----------------------------------------------------------------------------
(* train_dataset, val_dataset, test_dataset *)

NoSplit == [m \in DATA_MODES |-> NoDataset]

\* what torchaudio.load reads for each path, taken as fixed while the three
\* datasets are in use
Disk(path) ==
    IF path.parent = 1
    THEN [wave |-> <<2, 1, 2>>, sample_rate |-> 10]
    ELSE [wave |-> <<1, 2, 1, 2>>, sample_rate |-> 15]

\* SincNetDataset(files, mode, 0.2) for one of train_dataset, val_dataset,
\* test_dataset, with the default trashhold
SplitInit ==
    /\ \E mode \in DATA_MODES :
         /\ ~split[mode].constructed
         /\ \E files \in FileLists :
              LET out == InitOutcome(split[mode], le_file, files, mode, 1)
              IN  /\ ctor' = out.ctor
                  /\ split' = [split EXCEPT ![mode] = out.dataset]
                  /\ le_file' = out.le_file
    /\ UNCHANGED <<dataset, item, custom, batch, fwd, stepped, loop, stack>>

\* a call of __getitem__ on one of the three datasets
SplitGetItem ==
    /\ item.status = "none"
    /\ \E mode \in DATA_MODES :
         /\ split[mode].constructed
         /\ \E index \in 1..Len(split[mode].files) :
              item' = GetItemResult(split[mode], index,
                                    Disk(split[mode].files[index]).wave,
                                    Disk(split[mode].files[index]).sample_rate)
    /\ UNCHANGED <<dataset, le_file, ctor, custom, batch, fwd, stepped, split, loop,
                   stack>>

----------------------------------------------------------------------------
(* train, fit_epoch, eval_epoch, predict *)

\* the model object after SincNet(n_classes): nn.Module.__init__ sets
\* training = True; calls is the record of the calls made on the model
NoLoop == [training |-> TRUE, calls |-> <<>>]

\* lengths of the loaders handed to fit_epoch, eval_epoch and predict
LoaderLens == 0..MaxLoader

\* model(inputs): SincNet.forward(x, sample_rate) is called without
\* sample_rate, which raises TypeError; mode is the flag the dropout layer
\* would have read
ModelCall(training) ==
    [mode |-> IF training THEN "train" ELSE "eval", error |-> "TypeError"]

\* the record of one call: the function, the length of its loader, the mode
\* of the model at model(inputs) ("not called" without such a call) and the
\* error that ended the call
Call(fn, batches, mode, error) ==
    [fn |-> fn, batches |-> batches, mode |-> mode, error |-> error]

\* fit_epoch(model, train_loader, criterion, optimizer): no statement sets
\* the mode.  The first batch ends the call in model(inputs); over an empty
\* loader running_loss / processed_data divides by zero.
fit_epoch ==
    /\ Len(loop.calls) < MaxCalls
    /\ \E batches \in LoaderLens :
         loop' = [loop EXCEPT !.calls = Append(@,
                    IF batches = 0
                    THEN Call("fit_epoch", batches, "not called", "ZeroDivisionError")
                    ELSE Call("fit_epoch", batches, ModelCall(loop.training).mode,
                              ModelCall(loop.training).error))]
    /\ UNCHANGED <<dataset, le_file, ctor, item, custom, batch, fwd, stepped, split,
                   stack>>

\* eval_epoch(model, val_loader, criterion): model.eval() comes first
eval_epoch ==
    /\ Len(loop.calls) < MaxCalls
    /\ \E batches \in LoaderLens :
         loop' = [training |-> FALSE,
                  calls |-> Append(loop.calls,
                    IF batches = 0
                    THEN Call("eval_epoch", batches, "not called", "ZeroDivisionError")
                    ELSE Call("eval_epoch", batches, ModelCall(FALSE).mode,
                              ModelCall(FALSE).error))]
    /\ UNCHANGED <<dataset, le_file, ctor, item, custom, batch, fwd, stepped, split,
                   stack>>

\* predict(model, test_loader): model.eval() is inside the loop, before
\* model(inputs); over an empty loader torch.cat([]) raises RuntimeError
predict ==
    /\ Len(loop.calls) < MaxCalls
    /\ \E batches \in LoaderLens :
         loop' = IF batches = 0
                 THEN [loop EXCEPT !.calls = Append(@,
                         Call("predict", batches, "not called", "RuntimeError"))]
                 ELSE [training |-> FALSE,
                       calls |-> Append(loop.calls,
                         Call("predict", batches, ModelCall(FALSE).mode,
                              ModelCall(FALSE).error))]
    /\ UNCHANGED <<dataset, le_file, ctor, item, custom, batch, fwd, stepped, split,
                   stack>>

\* train(train_files, val_files, model, epochs, batch_size):
\* TensorDataset(train_dataset) raises AttributeError in the first
\* statement, before any epoch
train ==
    /\ Len(loop.calls) < MaxCalls
    /\ loop' = [loop EXCEPT !.calls = Append(@,
                  Call("train", 0, "not called", "AttributeError"))]
    /\ UNCHANGED <<dataset, le_file, ctor, item, custom, batch, fwd, stepped, split,
                   stack>>

----------------------------------------------------------------------------
(* SincNet *)

\* the layers that SincNet.forward applies after Custom, in its order, with
\* the sizes declared in SincNet.__init__: custom[1:], conv1, conv2, lin1,
\* lin2, lin3, x.view(x.size(0), -1), out
Layers(n_classes) ==
    << [kind |-> "MaxPool1d", kernel_size |-> 2],
       [kind |-> "ReLU"],
       [kind |-> "Dropout"],
       [kind |-> "Conv1d", in_channels |-> 40, out_channels |-> 60, kernel_size |-> 5],
       [kind |-> "ReLU"],
       [kind |-> "Conv1d", in_channels |-> 60, out_channels |-> 60, kernel_size |-> 5],
       [kind |-> "ReLU"],
       [kind |-> "Linear", in_features |-> Lin1InFeatures, out_features |-> 2048],
       [kind |-> "ReLU"],
       [kind |-> "BatchNorm1d", num_features |-> 2048],
       [kind |-> "Linear", in_features |-> 2048, out_features |-> 2048],
       [kind |-> "ReLU"],
       [kind |-> "BatchNorm1d", num_features |-> 2048],
       [kind |-> "Linear", in_features |-> 2048, out_features |-> 2048],
       [kind |-> "ReLU"],
       [kind |-> "BatchNorm1d", num_features |-> 2048],
       [kind |-> "view"],
       [kind |-> "Linear", in_features |-> 2048, out_features |-> n_classes] >>

\* the shape after one layer, or the error the layer raises on the shape
Raises(shape) == [shape |-> shape, error |-> "RuntimeError"]

Gives(shape) == [shape |-> shape, error |-> "none"]

\* nn.MaxPool1d(kernel_size = k) on (B, C, T): stride k over the last
\* dimension, floor mode; an empty output is an error
MaxPool1d(layer, shape) ==
    IF Len(shape) # 3 \/ shape[3] \div layer.kernel_size = 0
    THEN Raises(shape)
    ELSE Gives(<<shape[1], shape[2], shape[3] \div layer.kernel_size>>)

\* nn.Conv1d on (B, C, T): C must be in_channels and T at least kernel_size
Conv1d(layer, shape) ==
    IF \/ Len(shape) # 3
       \/ shape[2] # layer.in_channels
       \/ shape[3] < layer.kernel_size
    THEN Raises(shape)
    ELSE Gives(<<shape[1], layer.out_channels, shape[3] - layer.kernel_size + 1>>)

\* nn.Linear on (..., H): H must be in_features
Linear(layer, shape) ==
    IF shape[Len(shape)] # layer.in_features
    THEN Raises(shape)
    ELSE Gives([shape EXCEPT ![Len(shape)] = layer.out_features])

\* nn.BatchNorm1d on (B, C) or (B, C, T): C must be num_features
BatchNorm1d(layer, shape) ==
    IF shape[2] # layer.num_features THEN Raises(shape) ELSE Gives(shape)

\* x.view(x.size(0), -1)
View(shape) ==
    Gives(<<shape[1], IF Len(shape) = 3 THEN shape[2] * shape[3] ELSE shape[2]>>)

Apply(layer, shape) ==
    CASE layer.kind = "MaxPool1d" -> MaxPool1d(layer, shape)
      [] layer.kind = "Conv1d" -> Conv1d(layer, shape)
      [] layer.kind = "Linear" -> Linear(layer, shape)
      [] layer.kind = "BatchNorm1d" -> BatchNorm1d(layer, shape)
      [] layer.kind = "view" -> View(shape)
      [] OTHER -> Gives(shape)

\* time lengths of the feature maps: too short for conv1, the 2950 of
\* 0.2 * 16000 - 250, and the length whose half less 8 is Lin1InFeatures
MapLens == {9, 2950, 2 * (Lin1InFeatures + 8)}

\* feature maps (B, C, T) given to the layers after Custom: C is what Custom
\* produces or what conv1 declares
FeatureMaps ==
    {<<b, c, t>> : b \in 1..MaxBatch, c \in {NUMBER_OF_FILTERS, 40}, t \in MapLens}

\* no SincNet yet.  at is the position in Layers of the layer to apply
\* next to shape, 0 while no feature map is inside; x is the feature map
\* that entered; call is the outcome of SincNet.forward
NoStack ==
    [built |-> FALSE, n_classes |-> 0, x |-> <<>>, at |-> 0, shape |-> <<>>,
     error |-> "none", call |-> "none"]

\* SincNet(n_classes)
SincNetInit ==
    /\ ~stack.built
    /\ \E n_classes \in 1..MaxClasses :
         stack' = [NoStack EXCEPT !.built = TRUE, !.n_classes = n_classes]
    /\ UNCHANGED <<dataset, le_file, ctor, item, custom, batch, fwd, stepped, split,
                   loop>>

\* SincNet.forward(x, sample_rate): self.custom is an nn.Sequential, whose
\* forward takes one input, so self.custom(x, sample_rate) raises TypeError
SincNetForward ==
    /\ stack.built
    /\ stack.call = "none"
    /\ stack' = [stack EXCEPT !.call = "TypeError"]
    /\ UNCHANGED <<dataset, le_file, ctor, item, custom, batch, fwd, stepped, split,
                   loop>>

\* a feature map enters the layers after Custom
FeedFeatureMap ==
    /\ stack.built
    /\ stack.at = 0
    /\ \E x \in FeatureMaps :
         stack' = [stack EXCEPT !.x = x, !.shape = x, !.at = 1, !.error = "none"]
    /\ UNCHANGED <<dataset, le_file, ctor, item, custom, batch, fwd, stepped, split,
                   loop>>

\* the next layer of forward is applied to the shape
ApplyLayer ==
    /\ stack.at \in 1..Len(Layers(stack.n_classes))
    /\ stack.error = "none"
    /\ LET out == Apply(Layers(stack.n_classes)[stack.at], stack.shape)
       IN  stack' = [stack EXCEPT !.shape = out.shape, !.error = out.error,
                                  !.at = IF out.error = "none" THEN @ + 1 ELSE @]
    /\ UNCHANGED <<dataset, le_file, ctor, item, custom, batch, fwd, stepped, split,
                   loop>>

\* the pass is over, with logits or with an error
LeaveStack ==
    /\ stack.at > 0
    /\ stack.error # "none" \/ stack.at > Len(Layers(stack.n_classes))
    /\ stack' = [stack EXCEPT !.x = <<>>, !.shape = <<>>, !.at = 0, !.error = "none"]
    /\ UNCHANGED <<dataset, le_file, ctor, item, custom, batch, fwd, stepped, split,
                   loop>>

----------------------------------------------------------------------------
InitData ==
    /\ dataset = NoDataset
    /\ le_file = NoFile
    /\ ctor = "none"
    /\ item = NoItem
    /\ custom = [number_of_filters |-> NumFilters, L |-> 2]
    /\ batch = [x_shape |-> <<1, 1, 2>>, sample_rate |-> 2]
    /\ fwd = NoForward
    /\ stepped = FALSE
    /\ split = NoSplit
    /\ loop = NoLoop
    /\ stack = NoStack

NextData ==
    \/ DatasetInit
    \/ GetItem
    \/ NextIteration

SpecData == InitData /\ [][NextData]_vars

NextSplit ==
    \/ SplitInit
    \/ SplitGetItem
    \/ NextIteration

SpecSplit == InitData /\ [][NextSplit]_vars

NextTrain ==
    \/ train
    \/ fit_epoch
    \/ eval_epoch
    \/ predict

SpecTrain == InitData /\ [][NextTrain]_vars

NextStack ==
    \/ SincNetInit
    \/ SincNetForward
    \/ FeedFeatureMap
    \/ ApplyLayer
    \/ LeaveStack

SpecStack == InitData /\ [][NextStack]_vars

\* the layer after Custom(NumFilters, l)
InitNet ==
    /\ dataset = NoDataset
    /\ le_file = NoFile
    /\ ctor = "none"
    /\ item = NoItem
    /\ custom \in {[number_of_filters |-> NumFilters, L |-> l] : l \in KernelLens}
    /\ batch \in Batches
    /\ fwd = NoForward
    /\ stepped = FALSE
    /\ split = NoSplit
    /\ loop = NoLoop
    /\ stack = NoStack

NextNet ==
    \/ LoadBatch
    \/ Forward
    \/ OptimizerStep

SpecNet == InitNet /\ [][NextNet]_vars

----------------------------------------------------------------------------
(* Properties of the dataset, checked under SpecData *)

\* floor(len / number), number = wavetime * sample_rate
FloorLenOverN(len, sample_rate) == (len * WavetimeDen) \div (WavetimeNum * sample_rate)

\* C1: whenever the denoised waveform is longer than N = wavetime *
\* sample_rate, _prepare_sample returns floor(len / N) segments and every
\* one of them has exactly N samples.
C1_SegmentsCountAndLength ==
    (item.status # "none" /\ LongerThanNumber(Len(item.clean), item.sample_rate))
    => /\ item.status = "returned"
       /\ Len(item.x) = FloorLenOverN(Len(item.clean), item.sample_rate)
       /\ \A i \in 1..Len(item.x) :
            Len(item.x[i]) * WavetimeDen = WavetimeNum * item.sample_rate

\* C2: whenever the denoised waveform is not longer than N (its length may
\* be 0), _prepare_sample raises nothing and returns no segment, so that
\* __getitem__ returns an item of zero segments.
C2_ShortYieldsEmpty ==
    (/\ item.status # "none"
     /\ item.wave # <<>>
     /\ ~LongerThanNumber(Len(item.clean), item.sample_rate))
    => (item.status = "returned" /\ item.x = <<>>)

\* C3: the denoise step keeps, in order, exactly the samples a with
\* |a| >= trashhold * max|a|, whatever their sign.
C3_DenoiseKeepsByMagnitude ==
    (item.status # "none" /\ item.wave # <<>>)
    => item.clean =
         SelectSeq(item.wave,
                   LAMBDA a : Abs(a) * TrashholdDen >= dataset.trashhold * MaxAbs(item.wave))

IsConstant(c) == \A i \in 1..Len(c) : c[i] = c[1]

\* C10: when a retained chunk is constant, normalization signals a
\* degenerate-segment error and no segment of NaN values is returned.
C10_ConstantChunkRaises ==
    (item.status # "none" /\ \E i \in 1..Len(item.chunks) : IsConstant(item.chunks[i]))
    => /\ item.status = "raised"
       /\ item.error = "DegenerateSegmentError"
       /\ \A i \in 1..Len(item.x) : \A j \in 1..Len(item.x[i]) : item.x[i][j] # NaN

----------------------------------------------------------------------------
(* Properties of the sinc layer, checked under SpecNet *)

\* C4: two calls of forward on the same layer, with the same window length
\* and the same (positive) sample rate, build the same filter kernels.
C4_KernelsDeterministic ==
    [][(/\ fwd.outcome # "none"
        /\ fwd.sample_rate > 0
        /\ fwd'.outcome # "none"
        /\ custom' = custom
        /\ fwd'.sample_rate = fwd.sample_rate)
       => fwd'.result_filters = fwd.result_filters]_vars

\* C5: the cutoffs persist across forward passes: a forward pass that
\* follows another one with no optimizer step completed in between uses
\* the cutoffs the earlier pass used.
C5_CutoffsPersist ==
    [][(/\ fwd.outcome # "none"
        /\ fwd.sample_rate > 0
        /\ fwd'.outcome # "none"
        /\ ~stepped
        /\ fwd'.sample_rate = fwd.sample_rate)
       => (fwd'.f_1 = fwd.f_1 /\ fwd'.f_2 = fwd.f_2)]_vars

\* C6: for every filter and every draw, the high cutoff is at least the
\* low cutoff.
C6_HighAtLeastLow ==
    fwd.outcome # "none"
    => \A i \in 1..Len(fwd.f_1) : fwd.f_2[i] >= fwd.f_1[i]

\* a forward pass has drawn a high cutoff strictly above the low one
C6_Witness ==
    /\ fwd.outcome # "none"
    /\ \E i \in 1..Len(fwd.f_1) : fwd.f_2[i] > fwd.f_1[i]

\* C7: for a positive sample rate, every low cutoff is at least 0 and every
\* high cutoff is at most the Nyquist frequency sample_rate / 2.
C7_CutoffsWithinNyquist ==
    (fwd.outcome # "none" /\ fwd.sample_rate > 0)
    => \A i \in 1..Len(fwd.f_1) :
         0 <= fwd.f_1[i] /\ fwd.f_2[i] <= Nyquist(fwd.sample_rate)

\* C8: for a batch of shape (B, 1, N), a window length L < N and a positive
\* sample rate, forward returns a feature map of shape (B, F, N - L + 1) to
\* its caller.
C8_ReturnsFeatureMap ==
    (fwd.outcome # "none" /\ fwd.sample_rate > 0 /\ custom.L < fwd.x_shape[3])
    => /\ fwd.outcome = "returned"
       /\ fwd.returned =
            <<fwd.x_shape[1], custom.number_of_filters, fwd.x_shape[3] - custom.L + 1>>

\* C9, as stated: whenever L >= N (L = N included) the convolution fails
\* with the kernel-longer-than-segment error and returns no feature map.
C9_KernelErrorFromEqual ==
    (fwd.outcome # "none" /\ fwd.sample_rate > 0 /\ custom.L >= fwd.x_shape[3])
    => (fwd.error = "RuntimeError" /\ fwd.returned = <<>>)

\* C9, amended: whenever L > N the convolution fails with the
\* kernel-longer-than-input error, and no feature map is computed or
\* returned; with L = N that error is not raised.
C9_KernelErrorWhenLonger ==
    fwd.outcome # "none"
    => /\ custom.L > fwd.x_shape[3]
            => (fwd.error = "RuntimeError" /\ fwd.results = <<>> /\ fwd.returned = <<>>)
       /\ custom.L = fwd.x_shape[3] => fwd.error # "RuntimeError"

\* a forward pass with a window longer than the segment has raised
C9_Witness ==
    /\ fwd.outcome = "raised"
    /\ fwd.error = "RuntimeError"
    /\ custom.L > fwd.x_shape[3]

\* C11: a constructor call with a mode outside DATA_MODES fails at once:
\* no dataset object results, the label encoder is not fitted and
\* label_encoder.pkl is not written.
C11_InvalidModeFailsFirst ==
    ctor = "NameError"
    => (~dataset.constructed /\ dataset = NoDataset /\ le_file = NoFile)

\* a constructor call has raised NameError
C11_Witness == ctor = "NameError"

\* C12: whenever the sample rate given to forward is <= 0, kernel synthesis
\* fails with an invalid-sample-rate error: no kernels and no feature map
\* are produced.
C12_InvalidRateRaises ==
    (fwd.outcome # "none" /\ fwd.sample_rate <= 0)
    => /\ fwd.outcome = "raised"
       /\ fwd.error = "InvalidSampleRateError"
       /\ fwd.result_filters = <<>>
       /\ fwd.results = <<>>

\* C14: within one non-test dataset, distinct labels get distinct ids, and
\* decoding the id of a label gives the label back; this holds of the ids
\* that __getitem__ returns.
C14_LabelRoundTrip ==
    (dataset.constructed /\ dataset.mode # "test")
    => /\ \A i, j \in 1..Len(dataset.labels) :
            Transform(dataset.classes, dataset.labels[i])
              = Transform(dataset.classes, dataset.labels[j])
            => dataset.labels[i] = dataset.labels[j]
       /\ \A i \in 1..Len(dataset.labels) :
            LET id == Transform(dataset.classes, dataset.labels[i])
            IN  /\ CanInverseTransform(dataset.classes, id)
                /\ InverseTransform(dataset.classes, id) = dataset.labels[i]
       /\ item.status = "returned"
            => \A k \in 1..Len(item.y) :
                 /\ CanInverseTransform(dataset.classes, item.y[k])
                 /\ InverseTransform(dataset.classes, item.y[k])
                      = dataset.files[item.index].parent

\* __getitem__ of a dataset of two labels has returned the id of the
\* second label
C14_Witness ==
    /\ dataset.constructed
    /\ dataset.mode # "test"
    /\ Len(dataset.classes) = 2
    /\ item.status = "returned"
    /\ item.y # <<>>
    /\ item.y[1] = 1

\* C17: every call of __getitem__ returns, with one sample rate per segment,
\* each the sample rate of the file; in train and val mode with one label id
\* per segment, each the encoder id of the parent directory of files[index];
\* in test mode without labels.
C17_MetadataAligned ==
    (item.status # "none" /\ item.wave # <<>>)
    => /\ item.status = "returned"
       /\ Len(item.f) = Len(item.x)
       /\ \A i \in 1..Len(item.f) : item.f[i] = item.sample_rate
       /\ dataset.mode # "test"
            => /\ item.has_y
               /\ Len(item.y) = Len(item.x)
               /\ \A i \in 1..Len(item.y) :
                    item.y[i] = Transform(dataset.classes,
                                          dataset.files[item.index].parent)
       /\ dataset.mode = "test" => (~item.has_y /\ item.y = <<>>)

----------------------------------------------------------------------------
(* Properties of the training functions, checked under SpecTrain *)

\* C15: in every call of fit_epoch the model is in training mode when it is
\* applied to a batch, also after a call of eval_epoch; in every call of
\* eval_epoch and of predict it is in evaluation mode.
C15_ModeFollowsFunction ==
    \A i \in 1..Len(loop.calls) :
        LET c == loop.calls[i]
        IN  c.mode # "not called"
            => /\ c.fn = "fit_epoch" => c.mode = "train"
               /\ c.fn \in {"eval_epoch", "predict"} => c.mode = "eval"

----------------------------------------------------------------------------
(* Properties of the layers after Custom, checked under SpecStack *)

\* C16: for a feature map (B, 80, 2950) the declared sizes agree with the
\* shapes: no layer raises, max pooling leaves the 80 channels and halves
\* the time, conv1 declares the channels it receives, each convolution
\* shortens the time by 4, lin1 declares channels times time of the output
\* of conv2, and the logits are (B, n_classes).
C16_DeclaredSizesAgree ==
    (stack.at > 0 /\ stack.x[2] = NUMBER_OF_FILTERS /\ stack.x[3] = 2950)
    => LET layers == Layers(stack.n_classes)
       IN  /\ stack.error = "none"
           /\ stack.at = 2 => stack.shape = <<stack.x[1], NUMBER_OF_FILTERS, 1475>>
           /\ stack.at = 4 => layers[4].in_channels = stack.shape[2]
           /\ stack.at = 5 => stack.shape[3] = 1475 - 4
           /\ stack.at = 7 => stack.shape[3] = 1475 - 8
           /\ stack.at = 8 => layers[8].in_features = stack.shape[2] * stack.shape[3]
           /\ stack.at > Len(layers) => stack.shape = <<stack.x[1], stack.n_classes>>

----------------------------------------------------------------------------
(* Properties of the three datasets, checked under SpecSplit *)

AllBuilt == \A m \in DATA_MODES : split[m].constructed

\* the labels of the files of the three datasets
AllLabels ==
    UNION {{split[m].files[i].parent : i \in 1..Len(split[m].files)} : m \in DATA_MODES}

\* C13: once the train, val and test datasets are constructed (in any
\* order, over any file lists), label_encoder.pkl has been written once, it
\* covers the labels of all the files, and it gives every label the id that
\* a non-test dataset gives it in __getitem__.
C13_FileIsTheMapping ==
    AllBuilt
    => /\ le_file.written = 1
       /\ AllLabels \subseteq Range(le_file.classes)
       /\ (item.status = "returned" /\ item.has_y /\ item.y # <<>>)
            => LET label == split[item.mode].labels[item.index]
               IN  /\ label \in Range(le_file.classes)
                   /\ item.y[1] = Transform(le_file.classes, label)

====
